---- MODULE Spec2Model ----
(***************************************************************************)
(* State-machine model of MTFM-Model/train.py: the training script of the  *)
(* three-tower VSS classifier.                                             *)
(*                                                                         *)
(* Three parts of the script are modelled, each with its own               *)
(* specification over the same variables:                                  *)
(*   Spec        lines 201-331: epoch loop, development pass, best-F1      *)
(*               checkpoint selection, checkpoint load and test pass;      *)
(*   SpecData    lines 65-115: the three SigDataset constructions and the  *)
(*               normalization statistics kept on args;                    *)
(*   SpecForward lines 163-169 and 184-196: the head of Model.forward      *)
(*               (positional table added, NaNs zeroed, tower slices).      *)
(*                                                                         *)
(* Abstractions.  The network's numeric output is an uninterpreted         *)
(* function of (parameters, input): every forward pass of the script is    *)
(* made with a (parameters, batch) pair it never uses again, so each       *)
(* forward pass draws its probabilities freely.  Parameters are identified *)
(* by the number of optimizer steps that produced them.  float64 values    *)
(* are exact rationals <<n, d>> plus NaN; numpy's integer division         *)
(* 0/0 gives NaN with a warning and does not raise.  Probabilities and     *)
(* labels are counted in halves (0, 1, 2 stand for 0.0, 0.5, 1.0).         *)
(* Lines 175-177 (a misplaced parenthesis), args.num_feature (line 202,    *)
(* never assigned; the window's width) and the loading glue of lines       *)
(* 104-111 are read as intended: the loaders deliver three non-empty       *)
(* splits.  losses.append (lines 224, 264) is taken to succeed, as it does *)
(* on the CUDA path.  models/ exists, so torch.save succeeds.              *)
(***************************************************************************)
EXTENDS Integers, Sequences, FiniteSets, TLC

(* ------------------------------ bounds -------------------------------- *)
\* args.epoch_num (line 30, default 50), scaled down
epoch_num == 2
\* args.batch_size (line 29, default 128), scaled down
batch_size == 2
\* number of examples in the training / development / test split
NTrain == 3
NDev == 2
NTest == 2
\* SigDataset arrays: channels, and values per channel (examples x timesteps)
\* of the training array and of each held-out array
NChan == 1
NTrainVals == 2
NHeldVals == 1
\* forward: args.data_len (line 46, 30 by default), scaled down, and the
\* NaN cells of a window
data_len == 2
MaxNaN == 2

(* ------------------------- program constants -------------------------- *)
\* the elements of one batch as the DataLoader yields it: SigDataset.__getitem__
\* returns the pair (input, label)
BatchArity == 2
\* the number of names the test loop unpacks a batch into (input, feature, label)
TestUnpackArity == 3

VARIABLES
    pc,          \* position in the script
    step,        \* epoch index of `for step in range(args.epoch_num)`, -1 before
    i,           \* batches the current DataLoader iterator has yielded
    order,       \* example order of the current DataLoader iterator
    batch,       \* batch_data: [idx, label]
    out,         \* the script's variable `out`: last forward output
    grad,        \* state of the parameters' gradients
    params,      \* model parameters: the run and the optimizer steps that made them
    mode,        \* model.train() / model.eval()
    schedSteps,  \* scheduler steps taken (lr = learning_rate * 0.99^schedSteps)
    losses, results,
    tp, tn, fp, fn, acc, precision, recall, f1,
    max_f1, max_f1_acc, best_epoch,
    ckptFile,    \* models/model0.pkl
    err,         \* the exception that ended the run, "" if none
    report,      \* what has been printed at run end: best triple, test line
    trainLabel, devLabel, testLabel,   \* the splits' labels
    \* history variables (not program state)
    cmSplit,     \* the split tp, tn, fp, fn were last computed from
    f1hist, acchist, paramsHist,  \* per epoch: development F1, accuracy, parameters
    savedHist,   \* per epoch: was the checkpoint written, and the best triple after it
    saves,       \* torch.save calls of this run
    epochsTrained, \* epochs whose training batches have all been processed
    ops,         \* operations applied to the current training batch, in order
    events,      \* optimizer / scheduler / dev-forward events of the current epoch
    testOuts,    \* per test batch handled: the source of the output it recorded
    \* dataset construction (lines 65-115)
    dpc,         \* position in lines 113-115
    train_stats, \* args.train_mean / args.train_std: [set, mean, std]
    train_data, dev_data, test_data,   \* the arrays, normalized in place once built
    rawTrain, rawDev, rawTest,         \* history: the arrays as loaded
    statsWrites, \* history: constructions that assigned args.train_mean / train_std
    \* Model.forward (lines 163-169)
    fpc,         \* position in forward
    x_in,        \* history: the window forward was called with
    x,           \* forward's local x
    x_network, x_radio, x_bs           \* the three towers' inputs

mainVars == <<pc, step, i, order, batch, out, grad, params, mode, schedSteps,
              losses, results, tp, tn, fp, fn, acc, precision, recall, f1,
              max_f1, max_f1_acc, best_epoch, ckptFile, err, report,
              trainLabel, devLabel, testLabel, cmSplit, f1hist, acchist,
              paramsHist, savedHist, saves, epochsTrained, ops, events, testOuts>>

dataVars == <<dpc, train_stats, train_data, dev_data, test_data, rawTrain, rawDev,
              rawTest, statsWrites>>

fwdVars == <<fpc, x_in, x, x_network, x_radio, x_bs>>

vars == <<mainVars, dataVars, fwdVars>>

(* --------------------------- float64 values --------------------------- *)
\* NaN is written 0/0; every other value has a positive denominator
NaN == <<0, 0>>

RECURSIVE GCD(_, _)
GCD(a, b) == IF b = 0 THEN a ELSE GCD(b, a % b)

\* the rational n/d (d > 0, n >= 0) in lowest terms
Rat(n, d) == LET g == GCD(n, d) IN <<n \div g, d \div g>>

\* numpy: integer / integer.  a/0 with a > 0 (inf) cannot arise below: every
\* numerator is a summand of its denominator.
IntDiv(a, b) == IF b = 0 THEN NaN ELSE Rat(a, b)

FMul(a, b) == IF a = NaN \/ b = NaN THEN NaN ELSE Rat(a[1] * b[1], a[2] * b[2])
FAdd(a, b) == IF a = NaN \/ b = NaN THEN NaN
              ELSE Rat(a[1] * b[2] + b[1] * a[2], a[2] * b[2])
FDiv(a, b) == IF a = NaN \/ b = NaN THEN NaN
              ELSE IF b[1] = 0 THEN NaN    \* only 0/0 arises: a = 0 when b = 0
              ELSE Rat(a[1] * b[2], a[2] * b[1])
\* a <= b on floats: false when either side is NaN
FLe(a, b) == a # NaN /\ b # NaN /\ a[1] * b[2] <= b[1] * a[2]

Zero == <<0, 1>>
Two == <<2, 1>>

(* ------------------------------ batching ------------------------------ *)
Min(a, b) == IF a < b THEN a ELSE b

\* a loader that drops a short last batch
NumBatchesDropLast(n) == n \div batch_size

\* len(DataLoader): the last batch may be short (drop_last is False)
NumBatches(n) == (n + batch_size - 1) \div batch_size

\* the k-th batch (k >= 1) of an iterator that visits the examples in `ord`
BatchOf(ord, labels, k) ==
    LET lo == (k - 1) * batch_size + 1
        hi == Min(k * batch_size, Len(ord))
        idx == [j \in 1..(hi - lo + 1) |-> ord[lo + j - 1]]
    IN [idx |-> idx, label |-> [j \in 1..Len(idx) |-> labels[idx[j]]]]

Identity(n) == [j \in 1..n |-> j]
Perms(n) == {p \in [1..n -> 1..n] : \A a, b \in 1..n : p[a] = p[b] => a = b}

(* --------------------------- metrics helpers --------------------------- *)
\* probabilities a forward pass can give, in halves: one below the decision
\* threshold and the threshold itself
Probs == {0, 1}

\* (x >= 0.5) + 0, for x given in halves
GeHalf(halves) == IF halves >= 1 THEN 1 ELSE 0

\* np.c_[out_lab, label] for one batch: rows <<out_lab, label>>
Rows(prob, label) ==
    [j \in 1..Len(prob) |-> <<GeHalf(prob[j]), GeHalf(2 * label[j])>>]

\* np.sum(out_lab[label == l] == o)
Cell(res, o, l) == Cardinality({k \in DOMAIN res : res[k][2] = l /\ res[k][1] = o})

\* lines 269-270 / 314-315: the columns of results thresholded again
Rethresh(res) == [k \in DOMAIN res |-> <<GeHalf(2 * res[k][1]), GeHalf(2 * res[k][2])>>]

\* f1 = 2 * (precision * recall) / (precision + recall)
F1Of(p, r) == FDiv(FMul(Two, FMul(p, r)), FAdd(p, r))

\* parameters after n optimizer steps of this run; a previous run's parameters
ParamsAt(n) == [run |-> "this", steps |-> n]
StaleParams == [run |-> "previous", steps |-> 0]

\* models/model0.pkl: absent, or the model object torch.save wrote
NoFile == [exists |-> FALSE, params |-> StaleParams]
FileOf(p) == [exists |-> TRUE, params |-> p]

NoOut == [split |-> "none", idx |-> <<>>, params |-> StaleParams, prob |-> <<>>]
NoBatch == [idx |-> <<>>, label |-> <<>>]

(* -------------------------------- Init -------------------------------- *)
MainInit ==
    /\ pc = "for_step"
    /\ step = -1
    /\ i = 0
    /\ order = <<>>
    /\ batch = NoBatch
    /\ out = NoOut
    /\ grad = "none"
    /\ params = ParamsAt(0)
    /\ mode = "train"
    /\ schedSteps = 0
    /\ losses = <<>> /\ results = <<>>
    /\ tp = 0 /\ tn = 0 /\ fp = 0 /\ fn = 0
    /\ acc = Zero /\ precision = Zero /\ recall = Zero /\ f1 = Zero
    /\ max_f1 = Zero /\ max_f1_acc = Zero
    /\ best_epoch = -1
    \* models/model0.pkl does not depend on the run: it is absent, or a previous
    \* run in the same directory left its checkpoint there
    /\ ckptFile \in {NoFile, FileOf(StaleParams)}
    /\ err = ""
    /\ report = <<>>
    \* training and test labels alternate (both classes present); the
    \* development labels are arbitrary
    /\ trainLabel = [k \in 1..NTrain |-> k % 2]
    /\ devLabel \in [1..NDev -> {0, 1}]
    /\ testLabel = [k \in 1..NTest |-> k % 2]
    /\ cmSplit = "none"
    /\ f1hist = <<>> /\ acchist = <<>> /\ paramsHist = <<>> /\ savedHist = <<>>
    /\ saves = 0
    /\ epochsTrained = 0
    /\ ops = <<>>
    /\ events = <<>>
    /\ testOuts = <<>>

(* ------------------------------ epoch loop ----------------------------- *)
\* lines 210-215: next epoch, or line 294 once range(epoch_num) is exhausted
ForStep ==
    /\ pc = "for_step"
    /\ IF step + 1 < epoch_num
       THEN /\ step' = step + 1
            /\ losses' = <<>> /\ results' = <<>>
            /\ mode' = "train"
            /\ \E p \in Perms(NTrain) : order' = p      \* shuffle=True
            /\ i' = 0
            /\ events' = <<>>
            /\ pc' = "train_loop"
            /\ UNCHANGED report
       ELSE /\ report' = Append(report, <<"best", best_epoch, max_f1, max_f1_acc>>)
            /\ pc' = "load"
            /\ UNCHANGED <<step, losses, results, mode, order, i, events>>
    /\ UNCHANGED <<batch, out, grad, params, schedSteps, tp, tn, fp, fn, acc,
                   precision, recall, f1, max_f1, max_f1_acc, best_epoch, ckptFile,
                   err, trainLabel, devLabel, testLabel, cmSplit, f1hist, acchist,
                   paramsHist, savedHist, saves, epochsTrained, ops, testOuts>>

\* lines 216-220: the iterator yields the next training batch; model.zero_grad()
TrainNext ==
    /\ pc = "train_loop"
    /\ i < NumBatches(NTrain)
    /\ i' = i + 1
    /\ batch' = BatchOf(order, trainLabel, i + 1)
    /\ grad' = "zero"
    /\ ops' = <<"zero_grad">>
    /\ pc' = "forward"
    /\ UNCHANGED <<step, order, out, params, mode, schedSteps, losses, results,
                   tp, tn, fp, fn, acc, precision, recall, f1, max_f1, max_f1_acc,
                   best_epoch, ckptFile, err, report, trainLabel, devLabel, testLabel,
                   cmSplit, f1hist, acchist, paramsHist, savedHist, saves,
                   epochsTrained, events, testOuts>>

\* the output of model(input) on the current batch
Forward(split) ==
    \E p \in [1..Len(batch.idx) -> Probs] :
        out' = [split |-> split, idx |-> batch.idx, params |-> params, prob |-> p]

\* line 222
TrainForward ==
    /\ pc = "forward"
    /\ Forward("train")
    /\ ops' = Append(ops, "forward")
    /\ pc' = "loss"
    /\ UNCHANGED <<step, i, order, batch, grad, params, mode, schedSteps, losses,
                   results, tp, tn, fp, fn, acc, precision, recall, f1, max_f1,
                   max_f1_acc, best_epoch, ckptFile, err, report, trainLabel,
                   devLabel, testLabel, cmSplit, f1hist, acchist, paramsHist,
                   savedHist, saves, epochsTrained, events, testOuts>>

\* bce_loss(out, label): identified by the output it was computed from
LossOf(o) == <<o.split, o.idx, o.params>>

\* lines 223-224
TrainLoss ==
    /\ pc = "loss"
    /\ losses' = Append(losses, LossOf(out))
    /\ ops' = Append(ops, "loss")
    /\ pc' = "backward"
    /\ UNCHANGED <<step, i, order, batch, out, grad, params, mode, schedSteps,
                   results, tp, tn, fp, fn, acc, precision, recall, f1, max_f1,
                   max_f1_acc, best_epoch, ckptFile, err, report, trainLabel,
                   devLabel, testLabel, cmSplit, f1hist, acchist, paramsHist,
                   savedHist, saves, epochsTrained, events, testOuts>>

\* line 225
TrainBackward ==
    /\ pc = "backward"
    /\ grad' = "raw"
    /\ ops' = Append(ops, "backward")
    /\ pc' = "clip"
    /\ UNCHANGED <<step, i, order, batch, out, params, mode, schedSteps, losses,
                   results, tp, tn, fp, fn, acc, precision, recall, f1, max_f1,
                   max_f1_acc, best_epoch, ckptFile, err, report, trainLabel,
                   devLabel, testLabel, cmSplit, f1hist, acchist, paramsHist,
                   savedHist, saves, epochsTrained, events, testOuts>>

\* line 227
TrainClip ==
    /\ pc = "clip"
    /\ grad' = "clipped"
    /\ ops' = Append(ops, "clip")
    /\ pc' = "optim_step"
    /\ UNCHANGED <<step, i, order, batch, out, params, mode, schedSteps, losses,
                   results, tp, tn, fp, fn, acc, precision, recall, f1, max_f1,
                   max_f1_acc, best_epoch, ckptFile, err, report, trainLabel,
                   devLabel, testLabel, cmSplit, f1hist, acchist, paramsHist,
                   savedHist, saves, epochsTrained, events, testOuts>>

\* a scheduler that is stepped with every optimizer step
OptimStepSteppingScheduler ==
    /\ pc = "optim_step"
    /\ params' = ParamsAt(params.steps + 1)
    /\ schedSteps' = schedSteps + 1
    /\ ops' = Append(ops, "optim_step")
    /\ events' = Append(Append(events, "optim"), "sched")
    /\ pc' = "record"
    /\ UNCHANGED <<step, i, order, batch, out, grad, mode, losses,
                   results, tp, tn, fp, fn, acc, precision, recall, f1, max_f1,
                   max_f1_acc, best_epoch, ckptFile, err, report, trainLabel,
                   devLabel, testLabel, cmSplit, f1hist, acchist, paramsHist,
                   savedHist, saves, epochsTrained, testOuts>>

\* line 228
TrainOptimStep ==
    /\ pc = "optim_step"
    /\ params' = ParamsAt(params.steps + 1)
    /\ ops' = Append(ops, "optim_step")
    /\ events' = Append(events, "optim")
    /\ pc' = "record"
    /\ UNCHANGED <<step, i, order, batch, out, grad, mode, schedSteps, losses,
                   results, tp, tn, fp, fn, acc, precision, recall, f1, max_f1,
                   max_f1_acc, best_epoch, ckptFile, err, report, trainLabel,
                   devLabel, testLabel, cmSplit, f1hist, acchist, paramsHist,
                   savedHist, saves, epochsTrained, testOuts>>

\* lines 230-232
TrainRecord ==
    /\ pc = "record"
    /\ results' = results \o Rows(out.prob, batch.label)
    /\ pc' = "train_loop"
    /\ UNCHANGED <<step, i, order, batch, out, grad, params, mode, schedSteps,
                   losses, tp, tn, fp, fn, acc, precision, recall, f1, max_f1,
                   max_f1_acc, best_epoch, ckptFile, err, report, trainLabel,
                   devLabel, testLabel, cmSplit, f1hist, acchist, paramsHist,
                   savedHist, saves, epochsTrained, ops, events, testOuts>>

\* lines 234-257: the training iterator is exhausted; scheduler.step(), the
\* training metrics, then the set-up of the development pass
TrainEnd ==
    /\ pc = "train_loop"
    /\ i = NumBatches(NTrain)
    /\ schedSteps' = schedSteps + 1
    /\ events' = Append(events, "sched")
    /\ epochsTrained' = epochsTrained + 1
    /\ LET TP == Cell(results, 1, 1)
           TN == Cell(results, 0, 0)
           FP == Cell(results, 1, 0)
           FN == Cell(results, 0, 1)
           P == IntDiv(TP, TP + FP)
           R == IntDiv(TP, TP + FN)
       IN /\ tp' = TP /\ tn' = TN /\ fp' = FP /\ fn' = FN
          /\ precision' = P
          /\ recall' = R
          /\ f1' = F1Of(P, R)
    /\ cmSplit' = "train"
    /\ losses' = <<>> /\ results' = <<>>
    /\ mode' = "eval"
    /\ order' = Identity(NDev)                          \* shuffle=False
    /\ i' = 0
    /\ pc' = "dev_loop"
    /\ UNCHANGED <<step, batch, out, grad, params, acc, max_f1, max_f1_acc,
                   best_epoch, ckptFile, err, report, trainLabel, devLabel,
                   testLabel, f1hist, acchist, paramsHist, savedHist, saves, ops,
                   testOuts>>

(* --------------------------- development pass -------------------------- *)
\* lines 259-260
DevNext ==
    /\ pc = "dev_loop"
    /\ i < NumBatches(NDev)
    /\ i' = i + 1
    /\ batch' = BatchOf(order, devLabel, i + 1)
    /\ pc' = "dev_forward"
    /\ UNCHANGED <<step, order, out, grad, params, mode, schedSteps, losses, results,
                   tp, tn, fp, fn, acc, precision, recall, f1, max_f1, max_f1_acc,
                   best_epoch, ckptFile, err, report, trainLabel, devLabel, testLabel,
                   cmSplit, f1hist, acchist, paramsHist, savedHist, saves,
                   epochsTrained, ops, events, testOuts>>

\* lines 261-262
DevForward ==
    /\ pc = "dev_forward"
    /\ grad' = "zero"
    /\ Forward("dev")
    /\ events' = Append(events, "dev")
    /\ pc' = "dev_record"
    /\ UNCHANGED <<step, i, order, batch, params, mode, schedSteps, losses,
                   results, tp, tn, fp, fn, acc, precision, recall, f1, max_f1,
                   max_f1_acc, best_epoch, ckptFile, err, report, trainLabel,
                   devLabel, testLabel, cmSplit, f1hist, acchist, paramsHist,
                   savedHist, saves, epochsTrained, ops, testOuts>>

\* lines 263-267
DevRecord ==
    /\ pc = "dev_record"
    /\ losses' = Append(losses, LossOf(out))
    /\ results' = results \o Rows(out.prob, batch.label)
    /\ pc' = "dev_loop"
    /\ UNCHANGED <<step, i, order, batch, out, grad, params, mode, schedSteps,
                   tp, tn, fp, fn, acc, precision, recall, f1, max_f1,
                   max_f1_acc, best_epoch, ckptFile, err, report, trainLabel,
                   devLabel, testLabel, cmSplit, f1hist, acchist, paramsHist,
                   savedHist, saves, epochsTrained, ops, events, testOuts>>

\* lines 269-286: the development iterator is exhausted; the epoch's metrics
DevEnd ==
    /\ pc = "dev_loop"
    /\ i = NumBatches(NDev)
    /\ LET res == Rethresh(results)
           TP == Cell(res, 1, 1)
           TN == Cell(res, 0, 0)
           FP == Cell(res, 1, 0)
           FN == Cell(res, 0, 1)
           P == IntDiv(TP, TP + FP)
           R == IntDiv(TP, TP + FN)
       IN /\ tp' = TP /\ tn' = TN /\ fp' = FP /\ fn' = FN
          /\ acc' = IntDiv(TP + TN, TP + FP + TN + FN)
          /\ precision' = P
          /\ recall' = R
          /\ f1' = F1Of(P, R)
    /\ cmSplit' = "dev"
    /\ pc' = "select"
    /\ UNCHANGED <<step, i, order, batch, out, grad, params, mode, schedSteps,
                   losses, results, max_f1, max_f1_acc, best_epoch, ckptFile, err,
                   report, trainLabel, devLabel, testLabel, f1hist, acchist,
                   paramsHist, savedHist, saves, epochsTrained, ops, events,
                   testOuts>>

(* ---------------------------- model selector --------------------------- *)
\* a selector that keeps the earlier epoch on a tie
KeepsOnTie(best, new) == FLe(best, new) /\ best # new

\* line 288: max_f1 <= f1
Improves(best, new) == FLe(best, new)

\* lines 288-292
Select ==
    /\ pc = "select"
    /\ IF Improves(max_f1, f1)
       THEN /\ max_f1' = f1
            /\ max_f1_acc' = acc
            /\ best_epoch' = step
            /\ ckptFile' = FileOf(params)              \* torch.save(model, ...)
            /\ saves' = saves + 1
       ELSE UNCHANGED <<max_f1, max_f1_acc, best_epoch, ckptFile, saves>>
    /\ f1hist' = Append(f1hist, f1)
    /\ acchist' = Append(acchist, acc)
    /\ paramsHist' = Append(paramsHist, params)
    /\ savedHist' = Append(savedHist, [saved |-> saves' # saves,
                                        triple |-> <<best_epoch', max_f1', max_f1_acc'>>])
    /\ pc' = "for_step"
    /\ UNCHANGED <<step, i, order, batch, out, grad, params, mode, schedSteps,
                   losses, results, tp, tn, fp, fn, acc, precision, recall, f1,
                   err, report, trainLabel, devLabel, testLabel, cmSplit,
                   epochsTrained, ops, events, testOuts>>

(* ------------------------------ evaluator ------------------------------ *)
\* lines 298-303: torch.load raises FileNotFoundError when the file is absent
Load ==
    /\ pc = "load"
    /\ IF ~ckptFile.exists
       THEN /\ err' = "FileNotFoundError:298"
            /\ pc' = "error"
            /\ UNCHANGED <<params, mode, losses, results, order, i>>
       ELSE /\ params' = ckptFile.params
            /\ mode' = "eval"
            /\ losses' = <<>> /\ results' = <<>>
            /\ order' = Identity(NTest)                 \* shuffle=False
            /\ i' = 0
            /\ pc' = "test_loop"
            /\ UNCHANGED err
    /\ UNCHANGED <<step, batch, out, grad, schedSteps, tp, tn, fp, fn, acc,
                   precision, recall, f1, max_f1, max_f1_acc, best_epoch, ckptFile,
                   report, trainLabel, devLabel, testLabel, cmSplit, f1hist, acchist,
                   paramsHist, savedHist, saves, epochsTrained, ops, events, testOuts>>

\* line 305, and lines 314-331 once the test iterator is exhausted
TestNext ==
    /\ pc = "test_loop"
    /\ IF i < NumBatches(NTest)
       THEN /\ i' = i + 1
            /\ batch' = BatchOf(order, testLabel, i + 1)
            /\ pc' = "test_body"
            /\ UNCHANGED <<tp, tn, fp, fn, acc, precision, recall, f1, cmSplit, report>>
       ELSE /\ LET res == Rethresh(results)
                   TP == Cell(res, 1, 1)
                   TN == Cell(res, 0, 0)
                   FP == Cell(res, 1, 0)
                   FN == Cell(res, 0, 1)
                   P == IntDiv(TP, TP + FP)
                   R == IntDiv(TP, TP + FN)
               IN /\ tp' = TP /\ tn' = TN /\ fp' = FP /\ fn' = FN
                  /\ precision' = P
                  /\ recall' = R
                  /\ f1' = F1Of(P, R)
                  /\ acc' = IntDiv(TP + TN, TP + FP + TN + FN)
                  /\ report' = Append(report,
                        <<"test", losses, IntDiv(TN, TN + FN), P, R,
                          IntDiv(FP, TN + FP), IntDiv(FN, TP + FN),
                          IntDiv(TP + TN, TP + FP + TN + FN), F1Of(P, R)>>)
            /\ cmSplit' = "test"
            /\ pc' = "done"
            /\ UNCHANGED <<i, batch>>
    /\ UNCHANGED <<step, order, out, grad, params, mode, schedSteps, losses, results,
                   max_f1, max_f1_acc, best_epoch, ckptFile, err, trainLabel,
                   devLabel, testLabel, f1hist, acchist, paramsHist, savedHist,
                   saves, epochsTrained, ops, events, testOuts>>

\* lines 306-312: the batch (BatchArity tensors) is unpacked into three names,
\* which raises ValueError; past that line there is no forward pass, and the
\* loss and the labels are taken from `out` as the last development batch left it
TestBody ==
    /\ pc = "test_body"
    /\ IF BatchArity # TestUnpackArity
       THEN /\ err' = "ValueError:306"
            /\ pc' = "error"
            /\ UNCHANGED <<grad, losses, results, testOuts>>
       ELSE IF Len(out.prob) # Len(batch.label)
       THEN /\ err' = "ValueError:312"                  \* np.c_ of unequal lengths
            /\ pc' = "error"
            /\ grad' = "zero"
            /\ losses' = Append(losses, LossOf(out))
            /\ UNCHANGED <<results, testOuts>>
       ELSE /\ grad' = "zero"
            /\ losses' = Append(losses, LossOf(out))
            /\ results' = results \o Rows(out.prob, batch.label)
            /\ testOuts' = Append(testOuts, LossOf(out))
            /\ pc' = "test_loop"
            /\ UNCHANGED err
    /\ UNCHANGED <<step, i, order, batch, out, params, mode, schedSteps,
                   tp, tn, fp, fn, acc, precision, recall, f1, max_f1,
                   max_f1_acc, best_epoch, ckptFile, report, trainLabel,
                   devLabel, testLabel, cmSplit, f1hist, acchist, paramsHist,
                   savedHist, saves, epochsTrained, ops, events>>

MainNext == ForStep \/ TrainNext \/ TrainForward \/ TrainLoss \/ TrainBackward
            \/ TrainClip \/ TrainOptimStep \/ TrainRecord \/ TrainEnd
            \/ DevNext \/ DevForward \/ DevRecord \/ DevEnd \/ Select
            \/ Load \/ TestNext \/ TestBody

(* ------------------- SigDataset and the normalizer --------------------- *)
\* x - y on floats
FSub(a, b) == IF a = NaN \/ b = NaN THEN NaN
              ELSE Rat(a[1] * b[2] - b[1] * a[2], a[2] * b[2])

RECURSIVE FSum(_)
FSum(sq) == IF sq = <<>> THEN Zero ELSE FAdd(Head(sq), FSum(Tail(sq)))

NotNaN(v) == v # NaN

\* np.nanmean(channel): NaN for a channel with no value
NanMean(channel) ==
    LET vs == SelectSeq(channel, NotNaN)
    IN IF vs = <<>> THEN NaN ELSE FDiv(FSum(vs), <<Len(vs), 1>>)

\* np.nanstd(channel), kept as the square root of the exact variance
NanStd(channel) ==
    LET vs == SelectSeq(channel, NotNaN)
        m == NanMean(channel)
        sq == [k \in 1..Len(vs) |-> FMul(FSub(vs[k], m), FSub(vs[k], m))]
    IN [sqrt |-> IF vs = <<>> THEN NaN ELSE FDiv(FSum(sq), <<Len(vs), 1>>)]

\* (channel - train_mean) / (train_std + 1e-5), kept as numerator and std;
\* NaN when the value or the mean is NaN
NaNNorm == [num |-> NaN, std |-> [sqrt |-> NaN]]
Normalized(v, m, sd) == IF FSub(v, m) = NaN THEN NaNNorm
                        ELSE [num |-> FSub(v, m), std |-> sd]

NoStats == [set |-> FALSE, mean |-> <<>>, std |-> <<>>]

\* a constructor that fits the statistics whatever its training flag says
NormalizerRefit(data, training, st) ==
    LET c == Len(data)
        fit == [set |-> TRUE,
                mean |-> [ch \in 1..c |-> NanMean(data[ch])],
                std |-> [ch \in 1..c |-> NanStd(data[ch])]]
    IN [stats |-> fit, wrote |-> TRUE,
        input |-> [ch \in 1..c |-> [k \in DOMAIN data[ch] |->
                      Normalized(data[ch][k], fit.mean[ch], fit.std[ch])]]]

\* SigDataset.__init__, lines 72-90: data[ch] is the channel self.input[:, :, ch]
\* flattened.  Gives args' statistics after the call, whether it assigned
\* them, and self.input.
Normalizer(data, training, st) ==
    LET c == Len(data)
        fit == [set |-> TRUE,
                mean |-> [ch \in 1..c |-> NanMean(data[ch])],
                std |-> [ch \in 1..c |-> NanStd(data[ch])]]
        use == IF training THEN fit ELSE st
    IN [stats |-> use, wrote |-> training,
        input |-> [ch \in 1..c |-> [k \in DOMAIN data[ch] |->
                      Normalized(data[ch][k], use.mean[ch], use.std[ch])]]]

\* the raw values of the modelled arrays
One == <<1, 1>>
TrainVals == {NaN, Zero, Two}
HeldVals == {NaN, One}

DataInit ==
    /\ dpc = "train"
    /\ train_stats = NoStats
    /\ rawTrain \in [1..NChan -> [1..NTrainVals -> TrainVals]]
    /\ rawDev \in [1..NChan -> [1..NHeldVals -> HeldVals]]
    /\ rawTest \in [1..NChan -> [1..NHeldVals -> HeldVals]]
    /\ train_data = [built |-> FALSE, training |-> TRUE, input |-> rawTrain]
    /\ dev_data = [built |-> FALSE, training |-> FALSE, input |-> rawDev]
    /\ test_data = [built |-> FALSE, training |-> FALSE, input |-> rawTest]
    /\ statsWrites = 0

DataIdle ==
    /\ dpc = "idle"
    /\ train_stats = NoStats
    /\ rawTrain = <<>> /\ rawDev = <<>> /\ rawTest = <<>>
    /\ train_data = [built |-> FALSE, training |-> TRUE, input |-> <<>>]
    /\ dev_data = [built |-> FALSE, training |-> FALSE, input |-> <<>>]
    /\ test_data = [built |-> FALSE, training |-> FALSE, input |-> <<>>]
    /\ statsWrites = 0

\* line 113: train_data = SigDataset(train_data, train_label, training=True)
BuildTrain ==
    /\ dpc = "train"
    /\ LET r == Normalizer(train_data.input, TRUE, train_stats)
       IN /\ train_stats' = r.stats
          /\ statsWrites' = IF r.wrote THEN statsWrites + 1 ELSE statsWrites
          /\ train_data' = [built |-> TRUE, training |-> TRUE, input |-> r.input]
    /\ dpc' = "dev"
    /\ UNCHANGED <<dev_data, test_data, rawTrain, rawDev, rawTest>>

\* line 114: dev_data = SigDataset(dev_data, dev_label, training=False)
BuildDev ==
    /\ dpc = "dev"
    /\ LET r == Normalizer(dev_data.input, FALSE, train_stats)
       IN /\ train_stats' = r.stats
          /\ statsWrites' = IF r.wrote THEN statsWrites + 1 ELSE statsWrites
          /\ dev_data' = [built |-> TRUE, training |-> FALSE, input |-> r.input]
    /\ dpc' = "test"
    /\ UNCHANGED <<train_data, test_data, rawTrain, rawDev, rawTest>>

\* line 115: test_data = SigDataset(test_data, test_label, training=False)
BuildTest ==
    /\ dpc = "test"
    /\ LET r == Normalizer(test_data.input, FALSE, train_stats)
       IN /\ train_stats' = r.stats
          /\ statsWrites' = IF r.wrote THEN statsWrites + 1 ELSE statsWrites
          /\ test_data' = [built |-> TRUE, training |-> FALSE, input |-> r.input]
    /\ dpc' = "built"
    /\ UNCHANGED <<train_data, dev_data, rawTrain, rawDev, rawTest>>

DataNext == BuildTrain \/ BuildDev \/ BuildTest

(* ---------------------------- Model.forward ---------------------------- *)
\* lines 49-51
network_feature == <<"rtt", "loss_rate", "dns_rate", "dns_latency", "ul_bw", "dl_bw">>
radio_feature == <<"rsrp", "snr", "rat">>
bs_feature == <<"handover", "dwell_time">>
\* dim_in: the width of the window (the 11 of line 61)
num_feature == Len(network_feature) + Len(radio_feature) + Len(bs_feature)

\* A tensor entry is rat + wave: a rational (or NaN) plus at most one
\* sinusoid <<"sin" | "cos", pos, k>> standing for sin or cos of pos * div_term[k].
\* For pos >= 1 the sinusoids are non-zero and no two of them are equal.
NoWave == <<"none", 0, 0>>
Val(r) == [rat |-> r, wave |-> NoWave]
NaNVal == Val(NaN)
ZeroVal == Val(Zero)
IsNaN(v) == v.rat = NaN

\* lines 186-194, entry (pos, ch), both counted from 0: sin on the even
\* columns, cos on the odd ones, of pos * div_term[ch // 2]; sin(0) = 0, cos(0) = 1
PEEntry(pos, ch) ==
    IF pos = 0
    THEN (IF ch % 2 = 0 THEN Val(Zero) ELSE Val(One))
    ELSE [rat |-> Zero, wave |-> <<IF ch % 2 = 0 THEN "sin" ELSE "cos", pos, ch \div 2>>]

\* lines 184-196
create_positional_encoding(seq_len, d_model) ==
    [t \in 1..seq_len |-> [c \in 1..d_model |-> PEEntry(t - 1, c - 1)]]

\* a + p for an input entry a (no sinusoid) and a table entry p
AddEntry(a, p) == IF IsNaN(a) \/ IsNaN(p) THEN NaNVal
                  ELSE [rat |-> FAdd(a.rat, p.rat), wave |-> p.wave]

\* line 165: x + self.pe.repeat(b, 1, 1), for one window of the batch
AddPE(w) == LET pe == create_positional_encoding(Len(w), num_feature)
            IN [t \in DOMAIN w |-> [c \in DOMAIN w[t] |-> AddEntry(w[t][c], pe[t][c])]]

\* line 166: x[torch.isnan(x)] = 0
ZeroNaNs(w) == [t \in DOMAIN w |-> [c \in DOMAIN w[t] |->
                   IF IsNaN(w[t][c]) THEN ZeroVal ELSE w[t][c]]]

\* a forward that zeroes the NaNs before it adds the table
EncodeZeroFirst(w) == AddPE(ZeroNaNs(w))

\* lines 165-166
Encode(w) == ZeroNaNs(AddPE(w))

\* the windows forward is called with: one fill value, NaN at up to MaxNaN cells
Cells == (1..data_len) \X (1..num_feature)
NaNSets == {{}} \cup {{h[k] : k \in 1..MaxNaN} : h \in [1..MaxNaN -> Cells]}
Windows == {[t \in 1..data_len |-> [c \in 1..num_feature |->
                IF <<t, c>> \in S THEN NaNVal ELSE Val(v)]] :
            S \in NaNSets, v \in {Zero, One}}

FwdInit ==
    /\ fpc = "encode"
    /\ x_in \in Windows
    /\ x = x_in
    /\ x_network = <<>> /\ x_radio = <<>> /\ x_bs = <<>>

FwdIdle ==
    /\ fpc = "idle"
    /\ x_in = <<>> /\ x = <<>>
    /\ x_network = <<>> /\ x_radio = <<>> /\ x_bs = <<>>

\* lines 164-166
FwdEncode ==
    /\ fpc = "encode"
    /\ x' = Encode(x)
    /\ fpc' = "slice"
    /\ UNCHANGED <<x_in, x_network, x_radio, x_bs>>

\* lines 167-169
FwdSlice ==
    /\ fpc = "slice"
    /\ x_network' = [t \in DOMAIN x |-> SubSeq(x[t], 1, Len(network_feature))]
    /\ x_radio' = [t \in DOMAIN x |->
                     SubSeq(x[t], Len(network_feature) + 1,
                            Len(network_feature) + Len(radio_feature))]
    /\ x_bs' = [t \in DOMAIN x |->
                  SubSeq(x[t], Len(x[t]) - Len(bs_feature) + 1, Len(x[t]))]
    /\ fpc' = "towers"
    /\ UNCHANGED <<x_in, x>>

FwdNext == FwdEncode \/ FwdSlice

(* --------------------------- specifications ---------------------------- *)
\* the initial values of the training script's variables
MainIdle ==
    /\ MainInit
    /\ ckptFile = NoFile
    /\ devLabel = [k \in 1..NDev |-> k % 2]

Init == MainInit /\ DataIdle /\ FwdIdle
Next == MainNext /\ UNCHANGED <<dataVars, fwdVars>>
Spec == Init /\ [][Next]_vars

InitData == DataInit /\ MainIdle /\ FwdIdle
NextData == DataNext /\ UNCHANGED <<mainVars, fwdVars>>
SpecData == InitData /\ [][NextData]_vars

InitForward == FwdInit /\ MainIdle /\ DataIdle
NextForward == FwdNext /\ UNCHANGED <<mainVars, dataVars>>
SpecForward == InitForward /\ [][NextForward]_vars

(* ======================= properties of the script ====================== *)
\* the epoch loop is over: line 294 has printed the best triple
AfterEpochs == pc \in {"load", "test_loop", "test_body", "error", "done"}

\* the greatest of a non-empty set of floats without NaN
FMax(S) == CHOOSE m \in S : \A v \in S : FLe(v, m)

\* C1: at run end max_f1 is the maximum of all epochs' development F1 values,
\* best_epoch is an epoch that attained it, max_f1_acc is that epoch's
\* accuracy, and the checkpoint file holds the parameters as they were at the
\* end of that epoch.
C1_SelectorReportsMaximum ==
    AfterEpochs =>
        /\ Len(f1hist) = epoch_num
        /\ best_epoch \in 0..(epoch_num - 1)
        /\ \A e \in 1..epoch_num : FLe(f1hist[e], max_f1)
        /\ f1hist[best_epoch + 1] = max_f1
        /\ acchist[best_epoch + 1] = max_f1_acc
        /\ ckptFile = FileOf(paramsHist[best_epoch + 1])

\* the run has stopped after the checkpoint was loaded
StoppedAfterLoad == pc = "done" \/ (pc = "error" /\ err # "FileNotFoundError:298")

\* C2: the evaluator runs one forward pass over the test split: once it has
\* stopped, every test batch has a recorded output, and it is the output of
\* the loaded checkpoint's parameters on that batch's own inputs.
C2_EvaluatorForwardsEachTestBatch ==
    StoppedAfterLoad =>
        /\ Len(testOuts) = NumBatches(NTest)
        /\ \A b \in 1..NumBatches(NTest) :
              testOuts[b] = <<"test", BatchOf(Identity(NTest), testLabel, b).idx,
                              ckptFile.params>>

\* C3: once all batches of a split have been accumulated, tp + tn + fp + fn
\* is the number of examples of that split (training, development, test).
C3_ConfusionMatrixCountsSplit ==
    /\ cmSplit = "train" => tp + tn + fp + fn = NTrain
    /\ cmSplit = "dev" => tp + tn + fp + fn = NDev
    /\ cmSplit = "test" => tp + tn + fp + fn = NTest

\* the development matrix of the second epoch, with a short last training
\* batch behind it and all four cells' sum split over tp and fp
C3_Witness ==
    /\ cmSplit = "dev" /\ step = 1
    /\ tp = 1 /\ fp = 1
    /\ NTrain % batch_size # 0

\* C4: with tp + fp = 0 or tp + fn = 0 on the development split, computing
\* the metrics does not raise and F1 is reported as 0 (not NaN), and the run
\* is at the checkpoint check.
C4_DegenerateF1IsZero ==
    (pc = "select" /\ (tp + fp = 0 \/ tp + fn = 0)) => (err = "" /\ f1 = Zero)

\* C5: the run never ends in an error; when it has ended it has run exactly
\* epoch_num epochs, printed the best triple and the test line, and the one
\* checkpoint file exists.
C5_RunReachesTestReport ==
    /\ pc # "error"
    /\ pc = "done" => /\ epochsTrained = epoch_num
                      /\ Len(report) = 2
                      /\ ckptFile.exists

\* the best F1 seen before epoch e (counted from 1): the initial 0 and the
\* earlier epochs' F1 values that are numbers
BestBefore(e) == FMax({Zero} \cup {f1hist[k] : k \in {j \in 1..(e - 1) : f1hist[j] # NaN}})

\* the epochs (counted from 1) that attain the maximum development F1
TopEpochs == {e \in DOMAIN f1hist :
                 /\ f1hist[e] # NaN
                 /\ \A k \in DOMAIN f1hist : f1hist[k] # NaN => FLe(f1hist[k], f1hist[e])}

MaxOf(S) == CHOOSE m \in S : \A v \in S : v <= m

\* C6: after each epoch the checkpoint is written and the best triple
\* replaced by (epoch, F1, accuracy) if and only if the epoch's development
\* F1 is >= the best F1 seen so far; so at run end, when epochs attain the
\* maximum F1, best_epoch is the latest of them and the checkpoint holds
\* that epoch's parameters.
C6_TiesFavorLaterEpoch ==
    /\ \A e \in DOMAIN savedHist :
          IF FLe(BestBefore(e), f1hist[e])
          THEN /\ savedHist[e].saved
               /\ savedHist[e].triple = <<e - 1, f1hist[e], acchist[e]>>
          ELSE /\ ~savedHist[e].saved
               /\ savedHist[e].triple =
                     IF e = 1 THEN <<-1, Zero, Zero>> ELSE savedHist[e - 1].triple
    /\ (AfterEpochs /\ TopEpochs # {}) =>
          /\ best_epoch + 1 = MaxOf(TopEpochs)
          /\ ckptFile = FileOf(paramsHist[MaxOf(TopEpochs)])

\* two epochs tie at the maximum and the later one is the best epoch
C6_Witness ==
    /\ AfterEpochs
    /\ f1hist[1] # NaN /\ f1hist[1] = f1hist[2]
    /\ TopEpochs = {1, 2}
    /\ best_epoch = 1

\* the statistics np.nanmean / np.nanstd give for an array
StatsOf(raw) == [set |-> TRUE,
                 mean |-> [ch \in DOMAIN raw |-> NanMean(raw[ch])],
                 std |-> [ch \in DOMAIN raw |-> NanStd(raw[ch])]]

\* an array normalized with given statistics
NormalizedWith(raw, st) ==
    [ch \in DOMAIN raw |-> [k \in DOMAIN raw[ch] |->
        Normalized(raw[ch][k], st.mean[ch], st.std[ch])]]

\* C7: the statistics are written exactly once, by the construction of the
\* training dataset and before the development and test datasets are
\* constructed; those constructions leave them as they are and normalize with
\* the training split's values.
C7_StatsWrittenOnce ==
    /\ dpc = "train" =>
          /\ statsWrites = 0 /\ ~train_stats.set
          /\ ~dev_data.built /\ ~test_data.built
    /\ dpc \in {"dev", "test", "built"} =>
          /\ statsWrites = 1
          /\ train_stats = StatsOf(rawTrain)
          /\ train_data.built
    /\ (dpc # "idle" /\ dev_data.built) =>
          dev_data.input = NormalizedWith(rawDev, StatsOf(rawTrain))
    /\ (dpc # "idle" /\ test_data.built) =>
          test_data.input = NormalizedWith(rawTest, StatsOf(rawTrain))

\* all three datasets are built, the held-out arrays have statistics of
\* their own that differ from the training ones, and hold numbers
C7_Witness ==
    /\ dpc = "built"
    /\ StatsOf(rawDev) # train_stats /\ StatsOf(rawTest) # train_stats
    /\ train_stats.mean[1] # NaN
    /\ dev_data.input[1][1] # NaNNorm /\ test_data.input[1][1] # NaNNorm

\* C8: when this run wrote no checkpoint, it ends in the error of the
\* checkpoint load: it does not go on to the test pass or to the report.
C8_NoCheckpointIsFatalAtLoad ==
    (AfterEpochs /\ saves = 0) =>
        /\ pc \in {"load", "error"}
        /\ pc = "error" => err = "FileNotFoundError:298"

\* the value forward hands to the towers for cell (t, c) of the window
TowerInput(t, c) ==
    IF c <= Len(network_feature) THEN x_network[t][c]
    ELSE IF c <= Len(network_feature) + Len(radio_feature)
         THEN x_radio[t][c - Len(network_feature)]
         ELSE x_bs[t][c - (num_feature - Len(bs_feature))]

\* C9: for every cell whose incoming value is NaN, the value handed to the
\* towers is not NaN and is not the position-independent 0 when the
\* positional table's entry there is non-zero.
C9_PositionalSignalSurvives ==
    fpc = "towers" =>
        \A t \in 1..data_len, c \in 1..num_feature :
            IsNaN(x_in[t][c]) =>
                /\ ~IsNaN(TowerInput(t, c))
                /\ PEEntry(t - 1, c - 1) # ZeroVal => TowerInput(t, c) # ZeroVal

\* C9 as amended: the table is added first and the NaNs are zeroed
\* afterwards, so for every cell whose incoming value is NaN the value
\* handed to the towers is exactly 0, whatever the table's entry; every
\* other cell is handed its value plus the table's entry; no NaN reaches
\* the towers.
C9_MissingCellsAreZeroed ==
    fpc = "towers" =>
        \A t \in 1..data_len, c \in 1..num_feature :
            /\ ~IsNaN(TowerInput(t, c))
            /\ IsNaN(x_in[t][c]) => TowerInput(t, c) = ZeroVal
            /\ ~IsNaN(x_in[t][c]) =>
                   TowerInput(t, c) = [rat |-> FAdd(x_in[t][c].rat, PEEntry(t - 1, c - 1).rat),
                                       wave |-> PEEntry(t - 1, c - 1).wave]

\* missing cells where the table is non-zero, in the first and the last tower
C9_Witness ==
    /\ fpc = "towers"
    /\ IsNaN(x_in[1][2]) /\ PEEntry(0, 1) # ZeroVal
    /\ IsNaN(x_in[data_len][num_feature])

BatchOrder == <<"zero_grad", "forward", "loss", "backward", "clip", "optim_step">>
EventRank(ev) == IF ev = "optim" THEN 1 ELSE IF ev = "sched" THEN 2 ELSE 3
InDevPass == pc \in {"dev_loop", "dev_forward", "dev_record", "select"}

\* C10: the scheduler has stepped once for each epoch whose training
\* batches are done; within an epoch its step comes after every optimizer
\* step and before every development forward pass; within a batch the
\* order is forward, loss, backward, clipping, optimizer step.
C10_SchedulerStepsOncePerEpoch ==
    /\ schedSteps = epochsTrained
    /\ \A a, b \in DOMAIN events : a < b => EventRank(events[a]) <= EventRank(events[b])
    /\ Cardinality({a \in DOMAIN events : events[a] = "sched"}) <= 1
    /\ InDevPass =>
          /\ Cardinality({a \in DOMAIN events : events[a] = "sched"}) = 1
          /\ Cardinality({a \in DOMAIN events : events[a] = "optim"}) = NumBatches(NTrain)
    /\ Len(ops) <= Len(BatchOrder) /\ ops = SubSeq(BatchOrder, 1, Len(ops))
    /\ pc = "record" => ops = BatchOrder

\* the second epoch's development pass, after two training batches each
C10_Witness ==
    /\ pc = "dev_record" /\ step = 1
    /\ schedSteps = 2
    /\ NumBatches(NTrain) > 1
    /\ params = ParamsAt(2 * NumBatches(NTrain))
====
